---- MODULE Spec2Model ----
(***************************************************************************)
(* A model of lib/python/briar/service.py: the BRIARService servicer, its  *)
(* seventeen rpc handlers, and serve(), which registers the servicer with  *)
(* a grpc server backed by a ThreadPoolExecutor of ten worker threads.     *)
(***************************************************************************)
EXTENDS Integers, Sequences, FiniteSets, Bags, TLC

VARIABLES environ, database_dir_exists, pc, service, port_bound,
          server_started, queue, running, last

vars == <<environ, database_dir_exists, pc, service, port_bound,
          server_started, queue, running, last>>

(***************************************************************************)
(* Bounds of the model.                                                    *)
(***************************************************************************)
\* longest request stream a client sends on detect / extract / enroll
MaxItems == 3
\* invocations a client keeps outstanding at once in Spec
MaxInFlight == 2
\* invocations that may wait in the executor's work queue at once
MaxQueue == 2

(***************************************************************************)
(* Program constants.                                                      *)
(***************************************************************************)
\* futures.ThreadPoolExecutor(max_workers=10)
max_workers == 10

DEFAULT_WEIGHTS_DIR == "weights"
DEFAULT_PREDICTOR_NAME == "predictor_model.dat"
DEFAULT_REC_MODEL_NAME == "recognition_model.dat"

(***************************************************************************)
(* The environment of the process.                                         *)
(***************************************************************************)
BriarDirs == {"/opt/briar"}

\* os.environ restricted to the one key the program reads
Environs ==
    {[k \in {} |-> ""]} \cup {[k \in {"BRIAR_DIR"} |-> d] : d \in BriarDirs}

\* os.path.join of relative components: the path as its list of components
path_join(a, b, c) == <<a, b, c>>

(***************************************************************************)
(* The operations of the service, as declared in "BRIARService".           *)
(***************************************************************************)
StreamOps == {"detect", "extract", "enroll"}

UnaryOps ==
    {"get_api_version", "status", "verify", "search", "cluster", "enhance",
     "database_create", "database_load", "database_insert",
     "database_retrieve", "database_remove_templates", "database_names",
     "database_list_templates", "database_finalize"}

Ops == StreamOps \cup UnaryOps

\* An item of a request stream: "ok", or "bad" when the performer's engine
\* would fail on it.
ItemKinds == {"ok", "bad"}

Streams == UNION {[1..n -> ItemKinds] : n \in 0..MaxItems}

\* An invocation: the operation and the request messages the client sends
\* (one message for a unary request, a stream for detect/extract/enroll).
Calls ==
    {[op |-> o, request |-> <<"ok">>] : o \in UnaryOps}
        \cup {[op |-> o, request |-> <<"ok", "ok">>] : o \in StreamOps}

\* The exchanges of the stream/stream operations, over every request stream.
StreamCalls == {[op |-> o, request |-> s] : o \in StreamOps, s \in Streams}

\* The invocations of the load scenario: detect exchanges, and the two
\* reporter operations.
LoadCalls == {c \in Calls : c.op \in {"detect", "status", "get_api_version"}}

\* Python's None
None == [none |-> TRUE]

NoService == [constructed |-> FALSE]
NoReply ==
    [op |-> "none", request |-> <<>>, code |-> "none", reply |-> None,
     consumed |-> <<>>, replies |-> <<>>]

(***************************************************************************)
(* Replies.                                                                *)
(***************************************************************************)
APIVersion(major, minor, patch) ==
    [major |-> major, minor |-> minor, patch |-> patch]

StatusReply(developer_name, service_name, version, status_enum) ==
    [developer_name |-> developer_name, service_name |-> service_name,
     version |-> version, status |-> status_enum]

\* What a handler did: the value it returned or the exception it raised, the
\* indices of the request items it took from the request iterator, and the
\* replies it yielded, each with the index of its item and its failed mark.
Return(reply) ==
    [raised |-> "none", reply |-> reply, consumed |-> <<>>, replies |-> <<>>]

Raise(exception) ==
    [raised |-> exception, reply |-> None, consumed |-> <<>>,
     replies |-> <<>>]

(***************************************************************************)
(* BRIARService.                                                           *)
(***************************************************************************)
\* Variant: the BRIAR_DIR check is gone and a default directory is used.
BRIARService__init__unchecked(options, database_path) ==
    LET dir == IF "BRIAR_DIR" \in DOMAIN environ
               THEN environ["BRIAR_DIR"] ELSE "."
    IN  [raised |-> "none",
         self |-> [constructed |-> TRUE,
                   predictor_path |->
                       path_join(dir, DEFAULT_WEIGHTS_DIR,
                                 DEFAULT_PREDICTOR_NAME),
                   rec_model_path |->
                       path_join(dir, DEFAULT_WEIGHTS_DIR,
                                 DEFAULT_REC_MODEL_NAME),
                   options |-> options]]

\* Variant: the constructor also refuses a missing database directory.
BRIARService__init__needs_database(options, database_path) ==
    IF "BRIAR_DIR" \notin DOMAIN environ \/ ~database_dir_exists
    THEN [raised |-> "EnvironmentError", self |-> NoService]
    ELSE [raised |-> "none",
          self |-> [constructed |-> TRUE,
                    predictor_path |->
                        path_join(environ["BRIAR_DIR"], DEFAULT_WEIGHTS_DIR,
                                  DEFAULT_PREDICTOR_NAME),
                    rec_model_path |->
                        path_join(environ["BRIAR_DIR"], DEFAULT_WEIGHTS_DIR,
                                  DEFAULT_REC_MODEL_NAME),
                    options |-> options]]

\* BRIARService.__init__: raises EnvironmentError when BRIAR_DIR is not in
\* os.environ; otherwise sets predictor_path, rec_model_path and options.
\* database_path is accepted and not used.
BRIARService__init__(options, database_path) ==
    IF "BRIAR_DIR" \notin DOMAIN environ
    THEN [raised |-> "EnvironmentError", self |-> NoService]
    ELSE [raised |-> "none",
          self |-> [constructed |-> TRUE,
                    predictor_path |->
                        path_join(environ["BRIAR_DIR"], DEFAULT_WEIGHTS_DIR,
                                  DEFAULT_PREDICTOR_NAME),
                    rec_model_path |->
                        path_join(environ["BRIAR_DIR"], DEFAULT_WEIGHTS_DIR,
                                  DEFAULT_REC_MODEL_NAME),
                    options |-> options]]

\* Variant: the patch number moves once an invocation has been answered.
get_api_version_drifting(self, request, context) ==
    Return(APIVersion(1, 2, IF last = NoReply THEN 3 ELSE 4))

\* The name briar_pb2 used here and in status is taken to be bound by
\* "from briar.media_converters import *".
get_api_version(self, request, context) == Return(APIVersion(1, 2, 3))

status(self, request, context) ==
    Return(StatusReply("[devname-here]", "This is a service",
                       APIVersion(1, 2, 3), "READY"))

\* Variant: the handler takes the first request item before it raises.
detect_reading_ahead(self, req_iter, context) ==
    [raised |-> "NotImplementedError", reply |-> None,
     consumed |-> IF req_iter = <<>> THEN <<>> ELSE <<1>>, replies |-> <<>>]

\* Variant: an implemented handler that replies to every item in turn and
\* marks the reply of a bad item failed.
extract_per_item(self, req_iter, context) ==
    [raised |-> "none", reply |-> None,
     consumed |-> [i \in DOMAIN req_iter |-> i],
     replies |-> [i \in DOMAIN req_iter |->
                     [index |-> i, failed |-> req_iter[i] = "bad"]]]

\* detect, extract and enroll contain no yield: they are plain functions, and
\* the raise happens when the handler is called, before req_iter is touched.
detect(self, req_iter, context) == Raise("NotImplementedError")

extract(self, req_iter, context) == Raise("NotImplementedError")

enroll(self, req_iter, context) == Raise("NotImplementedError")

verify(self, request, context) == Raise("NotImplementedError")

search(self, request, context) == Raise("NotImplementedError")

cluster(self, request, context) == Raise("NotImplementedError")

enhance(self, request, context) == Raise("NotImplementedError")

database_create(self, request, context) == Raise("NotImplementedError")

database_load(self, request, context) == Raise("NotImplementedError")

database_insert(self, request, context) == Raise("NotImplementedError")

database_retrieve(self, request, context) == Raise("NotImplementedError")

database_remove_templates(self, request, context) ==
    Raise("NotImplementedError")

database_names(self, request, context) == Raise("NotImplementedError")

database_list_templates(self, request, context) ==
    Raise("NotImplementedError")

database_finalize(self, request, context) == Raise("NotImplementedError")

(***************************************************************************)
(* The grpc server that serve() builds: the servicer's handlers run on the *)
(* worker threads of the ThreadPoolExecutor.                               *)
(***************************************************************************)
\* grpc.ServicerContext of an invocation
ServicerContext(c) == [is_active |-> TRUE]

\* Variant: maximum_concurrent_rpcs set to the size of the pool.
admit_limited(active) == active < max_workers

\* grpc.server is built without maximum_concurrent_rpcs: every invocation is
\* admitted, whatever the number already running or waiting.
admit(active) == TRUE

\* The status code the server gives an invocation whose handler returned
\* (OK) or raised (the exception is caught at the handler boundary and the
\* invocation alone is aborted with UNKNOWN).
rpc_code(outcome) == IF outcome.raised = "none" THEN "OK" ELSE "UNKNOWN"

InFlight == Len(queue) + BagCardinality(running)

Init ==
    /\ environ \in Environs
    /\ database_dir_exists \in BOOLEAN
    /\ pc = "grpc_server"
    /\ service = NoService
    /\ port_bound = FALSE
    /\ server_started = FALSE
    /\ queue = <<>>
    /\ running = EmptyBag
    /\ last = NoReply

\* server = grpc.server(futures.ThreadPoolExecutor(max_workers=10), ...)
serve_grpc_server ==
    /\ pc = "grpc_server"
    /\ pc' = "add_servicer"
    /\ UNCHANGED <<environ, database_dir_exists, service, port_bound,
                   server_started, queue, running, last>>

\* add_BRIARServiceServicer_to_server(BRIARService(), server): an exception
\* of the constructor leaves serve(), and the process ends.
serve_add_servicer ==
    /\ pc = "add_servicer"
    /\ LET made == BRIARService__init__(None, "databases")
       IN  IF made.raised = "none"
           THEN /\ service' = made.self
                /\ pc' = "add_insecure_port"
           ELSE /\ service' = service
                /\ pc' = "raised"
    /\ UNCHANGED <<environ, database_dir_exists, port_bound, server_started,
                   queue, running, last>>

\* server.add_insecure_port(DEFAULT_SERVE_PORT)
serve_add_insecure_port ==
    /\ pc = "add_insecure_port"
    /\ port_bound' = TRUE
    /\ pc' = "start"
    /\ UNCHANGED <<environ, database_dir_exists, service, server_started,
                   queue, running, last>>

\* server.start()
serve_start ==
    /\ pc = "start"
    /\ server_started' = TRUE
    /\ pc' = "print"
    /\ UNCHANGED <<environ, database_dir_exists, service, port_bound, queue,
                   running, last>>

\* print("Service Started.  ")
serve_print ==
    /\ pc = "print"
    /\ pc' = "loop"
    /\ UNCHANGED <<environ, database_dir_exists, service, port_bound,
                   server_started, queue, running, last>>

\* Variant: the loop ends after one sleep and serve() returns.
serve_sleep_once ==
    /\ pc = "loop"
    /\ pc' = "returned"
    /\ port_bound' = FALSE
    /\ server_started' = FALSE
    /\ UNCHANGED <<environ, database_dir_exists, service, queue, running,
                   last>>

\* while True: time.sleep(0.1)
serve_sleep ==
    /\ pc = "loop"
    /\ pc' = "loop"
    /\ UNCHANGED <<environ, database_dir_exists, service, port_bound,
                   server_started, queue, running, last>>

\* "Runs until killed": the process is killed from outside, and its server,
\* its port and the invocations it holds go with it.
kill ==
    /\ pc \notin {"raised", "killed"}
    /\ pc' = "killed"
    /\ port_bound' = FALSE
    /\ server_started' = FALSE
    /\ queue' = <<>>
    /\ running' = EmptyBag
    /\ UNCHANGED <<environ, database_dir_exists, service, last>>

\* A client invokes an operation of the started server: the invocation is
\* admitted and submitted to the executor, whose work queue it joins.
Invoke(calls, cap) ==
    /\ server_started
    /\ InFlight < cap
    /\ Len(queue) < MaxQueue
    /\ \E c \in calls :
        IF admit(InFlight)
        THEN /\ queue' = Append(queue, c)
             /\ last' = last
        ELSE /\ queue' = queue
             /\ last' = [op |-> c.op, request |-> c.request,
                         code |-> "RESOURCE_EXHAUSTED", reply |-> None,
                         consumed |-> <<>>, replies |-> <<>>]
    /\ UNCHANGED <<environ, database_dir_exists, pc, service, port_bound,
                   server_started, running>>

client_invoke == Invoke(Calls, MaxInFlight)

load_invoke == Invoke(LoadCalls, max_workers + MaxQueue)

stream_invoke == Invoke(StreamCalls, 1)

\* Variant: a status invocation is started even when no worker is free.
worker_take_status_first ==
    /\ queue # <<>>
    /\ \/ BagCardinality(running) < max_workers
       \/ Head(queue).op = "status"
    /\ running' = running (+) SetToBag({Head(queue)})
    /\ queue' = Tail(queue)
    /\ UNCHANGED <<environ, database_dir_exists, pc, service, port_bound,
                   server_started, last>>

\* A worker thread of the executor that is not running a handler takes the
\* oldest invocation of the work queue.
worker_take ==
    /\ queue # <<>>
    /\ BagCardinality(running) < max_workers
    /\ running' = running (+) SetToBag({Head(queue)})
    /\ queue' = Tail(queue)
    /\ UNCHANGED <<environ, database_dir_exists, pc, service, port_bound,
                   server_started, last>>

\* Variant: an exception of a handler is not caught; it ends the server.
Complete_crashing(c, outcome) ==
    /\ running' = running (-) SetToBag({c})
    /\ last' = [op |-> c.op, request |-> c.request,
                code |-> rpc_code(outcome), reply |-> outcome.reply,
                consumed |-> outcome.consumed, replies |-> outcome.replies]
    /\ IF outcome.raised = "none"
       THEN UNCHANGED <<pc, port_bound, server_started>>
       ELSE /\ pc' = "raised"
            /\ port_bound' = FALSE
            /\ server_started' = FALSE
    /\ UNCHANGED <<environ, database_dir_exists, service, queue>>

\* The handler of invocation c has run on its worker thread with this
\* outcome: the invocation ends with its status code and its replies, the
\* worker is free again, and the server goes on.
Complete(c, outcome) ==
    /\ running' = running (-) SetToBag({c})
    /\ last' = [op |-> c.op, request |-> c.request,
                code |-> rpc_code(outcome), reply |-> outcome.reply,
                consumed |-> outcome.consumed, replies |-> outcome.replies]
    /\ UNCHANGED <<environ, database_dir_exists, pc, service, port_bound,
                   server_started, queue>>

rpc_get_api_version ==
    \E c \in BagToSet(running) :
        /\ c.op = "get_api_version"
        /\ Complete(c, get_api_version(service, c.request, ServicerContext(c)))

\* Variant: the status handler keeps its request in self.options.
rpc_status_writing_options ==
    \E c \in BagToSet(running) :
        /\ c.op = "status"
        /\ running' = running (-) SetToBag({c})
        /\ last' = [op |-> c.op, request |-> c.request, code |-> "OK",
                    reply |-> status(service, c.request,
                                     ServicerContext(c)).reply,
                    consumed |-> <<>>, replies |-> <<>>]
        /\ service' = [service EXCEPT !.options = [last_request |-> c.request]]
        /\ UNCHANGED <<environ, database_dir_exists, pc, port_bound,
                       server_started, queue>>

rpc_status ==
    \E c \in BagToSet(running) :
        /\ c.op = "status"
        /\ Complete(c, status(service, c.request, ServicerContext(c)))

rpc_detect ==
    \E c \in BagToSet(running) :
        /\ c.op = "detect"
        /\ Complete(c, detect(service, c.request, ServicerContext(c)))

rpc_extract ==
    \E c \in BagToSet(running) :
        /\ c.op = "extract"
        /\ Complete(c, extract(service, c.request, ServicerContext(c)))

rpc_enroll ==
    \E c \in BagToSet(running) :
        /\ c.op = "enroll"
        /\ Complete(c, enroll(service, c.request, ServicerContext(c)))

rpc_verify ==
    \E c \in BagToSet(running) :
        /\ c.op = "verify"
        /\ Complete(c, verify(service, c.request, ServicerContext(c)))

rpc_search ==
    \E c \in BagToSet(running) :
        /\ c.op = "search"
        /\ Complete(c, search(service, c.request, ServicerContext(c)))

rpc_cluster ==
    \E c \in BagToSet(running) :
        /\ c.op = "cluster"
        /\ Complete(c, cluster(service, c.request, ServicerContext(c)))

rpc_enhance ==
    \E c \in BagToSet(running) :
        /\ c.op = "enhance"
        /\ Complete(c, enhance(service, c.request, ServicerContext(c)))

rpc_database_create ==
    \E c \in BagToSet(running) :
        /\ c.op = "database_create"
        /\ Complete(c, database_create(service, c.request, ServicerContext(c)))

rpc_database_load ==
    \E c \in BagToSet(running) :
        /\ c.op = "database_load"
        /\ Complete(c, database_load(service, c.request, ServicerContext(c)))

rpc_database_insert ==
    \E c \in BagToSet(running) :
        /\ c.op = "database_insert"
        /\ Complete(c, database_insert(service, c.request, ServicerContext(c)))

rpc_database_retrieve ==
    \E c \in BagToSet(running) :
        /\ c.op = "database_retrieve"
        /\ Complete(c, database_retrieve(service, c.request, ServicerContext(c)))

rpc_database_remove_templates ==
    \E c \in BagToSet(running) :
        /\ c.op = "database_remove_templates"
        /\ Complete(c, database_remove_templates(service, c.request, ServicerContext(c)))

rpc_database_names ==
    \E c \in BagToSet(running) :
        /\ c.op = "database_names"
        /\ Complete(c, database_names(service, c.request, ServicerContext(c)))

rpc_database_list_templates ==
    \E c \in BagToSet(running) :
        /\ c.op = "database_list_templates"
        /\ Complete(c, database_list_templates(service, c.request, ServicerContext(c)))

rpc_database_finalize ==
    \E c \in BagToSet(running) :
        /\ c.op = "database_finalize"
        /\ Complete(c, database_finalize(service, c.request, ServicerContext(c)))

Startup ==
    \/ serve_grpc_server
    \/ serve_add_servicer
    \/ serve_add_insecure_port
    \/ serve_start
    \/ serve_print
    \/ serve_sleep
    \/ kill

Handlers ==
    \/ rpc_get_api_version
    \/ rpc_status
    \/ rpc_detect
    \/ rpc_extract
    \/ rpc_enroll
    \/ rpc_verify
    \/ rpc_search
    \/ rpc_cluster
    \/ rpc_enhance
    \/ rpc_database_create
    \/ rpc_database_load
    \/ rpc_database_insert
    \/ rpc_database_retrieve
    \/ rpc_database_remove_templates
    \/ rpc_database_names
    \/ rpc_database_list_templates
    \/ rpc_database_finalize

Next ==
    \/ Startup
    \/ client_invoke
    \/ worker_take
    \/ Handlers

Spec == Init /\ [][Next]_vars

\* The load scenario: clients keep the ten workers busy with detect
\* exchanges while status and get_api_version invocations arrive.
LoadNext ==
    \/ Startup
    \/ load_invoke
    \/ worker_take
    \/ rpc_detect
    \/ rpc_status
    \/ rpc_get_api_version

LoadSpec == Init /\ [][LoadNext]_vars

\* The stream scenario: one detect, extract or enroll exchange at a time,
\* over every request stream of up to MaxItems items.
StreamNext ==
    \/ Startup
    \/ stream_invoke
    \/ worker_take
    \/ rpc_detect
    \/ rpc_extract
    \/ rpc_enroll

StreamSpec == Init /\ [][StreamNext]_vars

(***************************************************************************)
(* Properties.                                                             *)
(***************************************************************************)
Unimplemented == Ops \ {"get_api_version", "status"}

Queued(op) == {i \in DOMAIN queue : queue[i].op = op}

Bad(request) == {i \in DOMAIN request : request[i] = "bad"}

Failed(replies) == {i \in DOMAIN replies : replies[i].failed}

\* C1: with BRIAR_DIR absent from the environment, the port is never bound,
\* the server is never started, no servicer exists, no invocation is ever
\* accepted or handled, and no reply of any kind (so no per-request error)
\* is ever produced.
C1_NoServingWithoutBriarDir ==
    "BRIAR_DIR" \notin DOMAIN environ =>
        /\ ~port_bound
        /\ ~server_started
        /\ service = NoService
        /\ queue = <<>>
        /\ running = EmptyBag
        /\ last = NoReply
        /\ pc \in {"grpc_server", "add_servicer", "raised", "killed"}

\* C1 witness: serve() has run into the constructor with BRIAR_DIR absent and
\* the EnvironmentError has ended it.
C1_StartupAborted == "BRIAR_DIR" \notin DOMAIN environ /\ pc = "raised"

\* C2 as stated: with the database storage directory missing, the server
\* never reaches the serving state.
C2_NoServingWithoutDatabaseDir == ~database_dir_exists => ~server_started

\* C2 amended: the database storage directory plays no part in startup:
\* startup is aborted only when BRIAR_DIR is absent, and once the constructor
\* has been passed with BRIAR_DIR present the servicer exists, whether the
\* database directory exists or not.
C2_StartupFailsOnlyOnBriarDir ==
    /\ pc = "raised" => "BRIAR_DIR" \notin DOMAIN environ
    /\ ("BRIAR_DIR" \in DOMAIN environ
            /\ pc \notin {"grpc_server", "add_servicer", "killed"})
        => service.constructed

\* C2 witness: the server is started and serving while the database storage
\* directory does not exist.
C2_ServingWithoutDatabaseDir ==
    ~database_dir_exists /\ server_started /\ pc = "loop"

\* C3: every answer to get_api_version is OK and carries the version 1.2.3,
\* whatever was invoked and answered before it and whatever else is in
\* flight.
C3_FixedVersion ==
    last.op = "get_api_version" =>
        /\ last.code = "OK"
        /\ last.reply = [major |-> 1, minor |-> 2, patch |-> 3]

\* C3 witness: get_api_version has been answered while an unimplemented
\* operation is being handled on another worker.
C3_VersionAnswered ==
    /\ last.op = "get_api_version"
    /\ \E c \in BagToSet(running) : c.op \in Unimplemented

\* C4 as stated: a status invocation never has to wait for a long-running
\* exchange to finish: it is never in the work queue while all the workers
\* are occupied by detect exchanges.
C4_StatusNeverWaits ==
    ~(/\ Queued("status") # {}
      /\ BagCardinality(running) = max_workers
      /\ \A c \in BagToSet(running) : c.op = "detect")

\* C4 amended: status goes through the same pool as every operation: a
\* waiting status invocation leaves the work queue only by being taken, as
\* the oldest waiting invocation, by a worker that was free; while all ten
\* workers are occupied it waits.
C4_StatusThroughPool ==
    [][(Cardinality(Queued("status")') < Cardinality(Queued("status"))
            /\ pc' # "killed")
        => /\ BagCardinality(running) < max_workers
           /\ Head(queue).op = "status"
           /\ running' = running (+) SetToBag({Head(queue)})]_vars

\* C4 witness: all ten workers are occupied by detect exchanges and a status
\* invocation is the oldest one waiting.
C4_StatusBehindSaturatedPool ==
    /\ queue # <<>>
    /\ Head(queue).op = "status"
    /\ BagCardinality(running) = max_workers
    /\ \A c \in BagToSet(running) : c.op = "detect"

\* C5 as stated: the number of admitted invocations, active or waiting,
\* never exceeds the size of the pool.
C5_AdmittedWithinPool == InFlight <= max_workers

\* C5 amended: no invocation is ever rejected with ResourceExhausted: one
\* that arrives while ten are being handled is admitted and waits in the
\* work queue; only the number being handled is bounded by the pool size.
C5_QueuedNotRejected ==
    /\ last.code # "RESOURCE_EXHAUSTED"
    /\ BagCardinality(running) <= max_workers

\* C5 witness: ten invocations are being handled and more are waiting.
C5_MoreThanPoolAdmitted ==
    BagCardinality(running) = max_workers /\ InFlight > max_workers

\* C6: a step in which a worker finishes an invocation of an unimplemented
\* operation answers that invocation with an error and touches nothing
\* else: the server stays started, serve() stays where it is, the other
\* invocations stay as they are; and get_api_version and status are only
\* ever answered OK.
C6_UnimplementedIsAnErrorReply ==
    /\ [](last.op \in {"get_api_version", "status"} => last.code = "OK")
    /\ [][\A c \in BagToSet(running) :
            (c.op \in Unimplemented /\ pc' # "killed"
                /\ running' = running (-) SetToBag({c}))
            => /\ last'.op = c.op
               /\ last'.code = "UNKNOWN"
               /\ last'.reply = None
               /\ server_started' /\ port_bound'
               /\ pc' = pc
               /\ queue' = queue]_vars

\* C6 witness: an invocation of an unimplemented operation has been answered
\* with an error, the server is still started, and a status invocation is
\* being handled.
C6_ErrorThenStillServing ==
    /\ last.op \in Unimplemented
    /\ last.code = "UNKNOWN"
    /\ server_started
    /\ \E c \in BagToSet(running) : c.op = "status"

C8_ThreeRepliesOneFailed ==
    (last.op = "extract" /\ Len(last.request) = 3
        /\ Cardinality(Bad(last.request)) = 1)
    => /\ Len(last.replies) = 3
       /\ Cardinality(Failed(last.replies)) = 1

\* C8 amended: extract is unimplemented: an extract exchange over three
\* items of which exactly one would fail is aborted with an error when the
\* handler is called; no item is consumed and no reply is delivered.
C8_ExtractAborted ==
    (last.op = "extract" /\ Len(last.request) = 3
        /\ Cardinality(Bad(last.request)) = 1)
    => /\ last.code = "UNKNOWN"
       /\ last.replies = <<>>
       /\ last.consumed = <<>>

\* C8 witness: an extract exchange over three items, exactly one of them
\* bad, has ended.
C8_ExtractOverThreeEnded ==
    /\ last.op = "extract"
    /\ Len(last.request) = 3
    /\ Cardinality(Bad(last.request)) = 1

\* C9: once the server is started, every step other than the kill of the
\* process leaves it started with its port bound and serve() inside its
\* final lines.
C9_ServesUntilKilled ==
    [][(server_started /\ pc' # "killed")
        => (server_started' /\ port_bound' /\ pc' \in {"print", "loop"})]_vars

\* C9 witness: serve() is in its loop with the server started, after an
\* invocation has been answered and with others in flight.
C9_LoopingAfterInvocations ==
    pc = "loop" /\ server_started /\ last # NoReply /\ InFlight > 0

\* C10: the fields of the service instance are written by the constructor
\* step alone, and an invocation of the same operation with the same request
\* as the one answered before it gets the same answer.
C10_HandlersShareNoState ==
    [][/\ pc # "add_servicer" => service' = service
       /\ (last'.op = last.op /\ last'.request = last.request)
            => last' = last]_vars

\* C10 witness: status has been answered by the constructed service while
\* another invocation is being handled.
C10_AnsweredAmongOthers ==
    /\ service.constructed
    /\ last.op = "status"
    /\ BagCardinality(running) > 0

====
